---- MODULE Spec2Model ----
(***************************************************************************)
(* Model of the OBE compliance portal (src/app.py): the spreadsheet        *)
(* parser smart_parse_file and the draft / approval workflow over the two  *)
(* tables inventory and drafts.                                            *)
(*                                                                         *)
(* Text is modelled as a sequence of one-character strings, so that        *)
(* title-casing, lower-casing and substring tests are computed and not     *)
(* assumed.  A pandas missing value is NaN, an SQL NULL / Python None is   *)
(* NULL; both differ from every text, the empty text <<>> included.  A      *)
(* sequence built as a function over 1..n is appended to <<>> so that it   *)
(* is held as a sequence.                                                  *)
(***************************************************************************)
EXTENDS Integers, Sequences, FiniteSets, TLC

VARIABLES
    inventory,     \* table inventory: id -> row                 (app.py 79-93)
    drafts,        \* table drafts: set of rows, each with an id  (app.py 94-112)
    seqInventory,  \* AUTOINCREMENT high-water mark of inventory.id
    seqDrafts,     \* AUTOINCREMENT high-water mark of drafts.id
    notice,        \* what the page last showed the actor (st.success / st.error / st.info)
    last,          \* the handler that ran last, the request it was run on, and whether
                   \* it finished an approve that had been interrupted
    crashPre,      \* history: inventory as it was before an interrupted approve
    everIds,       \* history: every inventory id handed out so far
    file,          \* the uploaded file under study
    pc,            \* parser study: "start" -> "parsed" -> "reparsed" or "replaced"
    parsed,        \* smart_parse_file(file)
    reparsed       \* smart_parse_file of parsed written back out as a file

vars == <<inventory, drafts, seqInventory, seqDrafts, notice, last, crashPre,
          everIds, file, pc, parsed, reparsed>>

\* ------------------------------------------------------------------ bounds
MaxRows == 2
MaxInventoryId == 2
MaxDraftId == 2

\* -------------------------------------------------------------------- text
NaN == <<"NaN">>
NULL == <<"NULL">>

\* the cased characters, each with its other case
UpperToLower == [A |-> "a", B |-> "b", C |-> "c", D |-> "d", E |-> "e", F |-> "f", G |-> "g", H |-> "h", I |-> "i", J |-> "j", K |-> "k", L |-> "l", M |-> "m", N |-> "n", O |-> "o", P |-> "p", Q |-> "q", R |-> "r", S |-> "s", T |-> "t", U |-> "u", V |-> "v", W |-> "w", X |-> "x", Y |-> "y", Z |-> "z"]
LowerToUpper == [a |-> "A", b |-> "B", c |-> "C", d |-> "D", e |-> "E", f |-> "F", g |-> "G", h |-> "H", i |-> "I", j |-> "J", k |-> "K", l |-> "L", m |-> "M", n |-> "N", o |-> "O", p |-> "P", q |-> "Q", r |-> "R", s |-> "S", t |-> "T", u |-> "U", v |-> "V", w |-> "W", x |-> "X", y |-> "Y", z |-> "Z"]
Digits == <<"0","1","2","3","4","5","6","7","8","9">>

IsUpper(c) == c \in DOMAIN UpperToLower
IsLower(c) == c \in DOMAIN LowerToUpper
IsCased(c) == IsUpper(c) \/ IsLower(c)
ToLower(c) == IF IsUpper(c) THEN UpperToLower[c] ELSE c
ToUpper(c) == IF IsLower(c) THEN LowerToUpper[c] ELSE c

\* str.lower()
lower(s) == [i \in 1..Len(s) |-> ToLower(s[i])] \o <<>>

\* str.title(): a cased character is upper-cased unless the one before it is cased
title(s) == [i \in 1..Len(s) |-> IF i > 1 /\ IsCased(s[i-1]) THEN ToLower(s[i]) ELSE ToUpper(s[i])] \o <<>>

\* str.strip()
RECURSIVE lstrip(_)
lstrip(s) == IF s # <<>> /\ Head(s) = " " THEN lstrip(Tail(s)) ELSE s
RECURSIVE rstrip(_)
rstrip(s) == IF s # <<>> /\ s[Len(s)] = " " THEN rstrip(SubSeq(s, 1, Len(s) - 1)) ELSE s
strip(s) == rstrip(lstrip(s))

\* sub in s
contains(s, sub) == \E i \in 0..(Len(s) - Len(sub)) : SubSeq(s, i + 1, i + Len(sub)) = sub

Max(S) == CHOOSE x \in S : \A y \in S : y <= x

\* ------------------------------------------------------- canonical columns
course_code == <<"c", "o", "u", "r", "s", "e", "_", "c", "o", "d", "e">>
subject == <<"s", "u", "b", "j", "e", "c", "t">>
theory_lab == <<"t", "h", "e", "o", "r", "y", "_", "l", "a", "b">>
credit_hours == <<"c", "r", "e", "d", "i", "t", "_", "h", "o", "u", "r", "s">>
clo_id == <<"c", "l", "o", "_", "i", "d">>
statement == <<"s", "t", "a", "t", "e", "m", "e", "n", "t">>
plo == <<"p", "l", "o">>
bloom == <<"b", "l", "o", "o", "m">>
kp == <<"k", "p">>
sgds == <<"s", "g", "d", "s">>
ec == <<"e", "c">>
notes == <<"n", "o", "t", "e", "s">>
MISSING == <<"M", "I", "S", "S", "I", "N", "G">>

\* ------------------------------------------------------------ the parser
\* A file is [decodable, lines]: lines[1] is the first line of the sheet.
\* A DataFrame is [ok, columns, rows]; a row is [index, cells]; ok = FALSE is
\* the exception that smart_parse_file turns into None.
ParseError == [ok |-> FALSE, columns |-> <<>>, rows |-> <<>>]

\* the name pandas gives a blank header cell
Unnamed(i) == <<"U", "n", "n", "a", "m", "e", "d", ":", " ">> \o <<Digits[i + 1]>>

\* pd.read_csv(uploaded_file, header=h): line h+1 is the header, the rest is data
read_csv(f, header) ==
    IF ~f.decodable \/ Len(f.lines) <= header THEN ParseError
    ELSE LET hd == f.lines[header + 1]
         IN [ok |-> TRUE,
             columns |-> [i \in 1..Len(hd) |-> IF hd[i] = NaN THEN Unnamed(i - 1) ELSE hd[i]] \o <<>>,
             rows |-> [k \in 1..(Len(f.lines) - header - 1) |->
                          [index |-> k - 1, cells |-> f.lines[k + header + 1]]] \o <<>>]

\* any("course" in str(c).lower() for c in df.columns)
AnyCourse(columns) == \E i \in DOMAIN columns : contains(lower(columns[i]), <<"c", "o", "u", "r", "s", "e">>)

\* the header row detection of lines 117-125
ReadTable(f) ==
    LET df == read_csv(f, 0)
    IN IF df.ok /\ ~AnyCourse(df.columns) THEN read_csv(f, 1) ELSE df

\* one pass of the loop building col_map, applied as df.rename does: a header
\* no rule matches keeps its (title-cased) name
col_map(c) ==
    LET cl == lower(c)
    IN IF contains(cl, <<"c", "o", "u", "r", "s", "e">>) THEN course_code
       ELSE IF contains(cl, <<"s", "u", "b", "j", "e", "c", "t">>) THEN subject
       ELSE IF contains(cl, <<"t", "h", "e", "o", "r", "y">>) THEN theory_lab
       ELSE IF contains(cl, <<"c", "r", "e", "d", "i", "t">>) THEN credit_hours
       ELSE IF contains(cl, <<"c", "l", "o">>) /\ ~contains(cl, <<"s", "t", "a", "t", "e", "m", "e", "n", "t">>) THEN clo_id
       ELSE IF contains(cl, <<"s", "t", "a", "t", "e", "m", "e", "n", "t">>) THEN statement
       ELSE IF contains(cl, <<"p", "l", "o">>) THEN plo
       ELSE IF contains(cl, <<"b", "l", "o", "o", "m">>) THEN bloom
       ELSE IF contains(cl, <<"k", "n", "o", "w", "l", "e", "d", "g", "e">>) THEN kp
       ELSE IF contains(cl, <<"s", "g", "d">>) THEN sgds
       ELSE IF contains(cl, <<"c", "o", "m", "p", "l", "e", "x", "i", "t", "y">>) \/ contains(cl, <<"e", "c">>) THEN ec
       ELSE IF contains(cl, <<"n", "o", "t", "e">>) THEN notes
       ELSE c

\* lines 127-143
RenameColumns(df) ==
    IF ~df.ok THEN df
    ELSE [df EXCEPT !.columns = [i \in DOMAIN df.columns |-> col_map(title(strip(df.columns[i])))] \o <<>>]

HasCol(df, name) == \E i \in DOMAIN df.columns : df.columns[i] = name
ColIdx(df, name) ==
    CHOOSE i \in DOMAIN df.columns :
        df.columns[i] = name /\ \A j \in 1..(i - 1) : df.columns[j] # name

\* The value Series.ffill / GroupBy.ffill leaves in row k of column v.  g = 0
\* is the ungrouped fill; otherwise g is the grouping column, and a row whose
\* group key is missing belongs to no group and gets a missing value.
ffill_value(rows, k, g, v) ==
    IF g # 0 /\ rows[k].cells[g] = NaN THEN NaN
    ELSE LET above == {j \in 1..k : /\ rows[j].cells[v] # NaN
                                    /\ (g = 0 \/ rows[j].cells[g] = rows[k].cells[g])}
         IN IF above = {} THEN NaN ELSE rows[Max(above)].cells[v]

ffill(rows, g, v) ==
    [k \in DOMAIN rows |-> [rows[k] EXCEPT !.cells[v] = ffill_value(rows, k, g, v)]] \o <<>>

\* Series.fillna(value) on column v
fillna(rows, v, value) ==
    [k \in DOMAIN rows |-> IF rows[k].cells[v] = NaN
                           THEN [rows[k] EXCEPT !.cells[v] = value] ELSE rows[k]] \o <<>>

\* line 144
FillSubject(df) ==
    IF df.ok /\ HasCol(df, subject)
    THEN [df EXCEPT !.rows = ffill(df.rows, 0, ColIdx(df, subject))]
    ELSE df

\* lines 145-146
FillCourseCode(df) ==
    IF df.ok /\ HasCol(df, course_code) /\ HasCol(df, subject)
    THEN [df EXCEPT !.rows = fillna(ffill(df.rows, ColIdx(df, subject), ColIdx(df, course_code)),
                                    ColIdx(df, course_code), MISSING)]
    ELSE df

\* lines 147-149: dropna on clo_id, then keep the rows whose clo_id contains "CLO"
KeepsClo(cell) == cell # NaN /\ contains(lower(cell), lower(<<"C", "L", "O">>))
FilterClo(df) ==
    IF df.ok /\ HasCol(df, clo_id)
    THEN LET c == ColIdx(df, clo_id)
             Keep(r) == KeepsClo(r.cells[c])
         IN [df EXCEPT !.rows = SelectSeq(df.rows, Keep)]
    ELSE df

\* lines 150-153: groupby('course_code') raises KeyError without that column
fill_cols == <<kp, sgds, ec, theory_lab, credit_hours, bloom, notes>>
RECURSIVE FillCols(_, _)
FillCols(df, n) ==
    IF n > Len(fill_cols) \/ ~df.ok THEN df
    ELSE IF ~HasCol(df, fill_cols[n]) THEN FillCols(df, n + 1)
    ELSE IF ~HasCol(df, course_code) THEN ParseError
    ELSE FillCols([df EXCEPT !.rows = ffill(df.rows, ColIdx(df, course_code), ColIdx(df, fill_cols[n]))],
                  n + 1)
FillMetadata(df) == FillCols(df, 1)

\* line 154: df.fillna("")
FillBlank(df) ==
    IF ~df.ok THEN df
    ELSE [df EXCEPT !.rows = [k \in DOMAIN df.rows |->
            [df.rows[k] EXCEPT !.cells = [i \in DOMAIN df.rows[k].cells |->
                IF df.rows[k].cells[i] = NaN THEN <<>> ELSE df.rows[k].cells[i]] \o <<>>]] \o <<>>]

\* line 155: drop_duplicates(subset=[course_code, clo_id, statement]) keeps the
\* first of equal rows and raises KeyError when a subset column is absent;
\* a frame without rows is returned as it is, before the columns are looked up
DropDuplicates(df) ==
    IF ~df.ok \/ df.rows = <<>> THEN df
    ELSE IF ~(HasCol(df, course_code) /\ HasCol(df, clo_id) /\ HasCol(df, statement)) THEN ParseError
    ELSE LET a == ColIdx(df, course_code)
             b == ColIdx(df, clo_id)
             c == ColIdx(df, statement)
             Key(r) == <<r.cells[a], r.cells[b], r.cells[c]>>
             First(k) == \A j \in 1..(k - 1) : Key(df.rows[j]) # Key(df.rows[k])
             RECURSIVE Kept(_)
             Kept(k) == IF k > Len(df.rows) THEN <<>>
                        ELSE IF First(k) THEN <<df.rows[k]>> \o Kept(k + 1) ELSE Kept(k + 1)
         IN [df EXCEPT !.rows = Kept(1)]

\* the variant that fills the metadata before it drops the rows
FillThenFilter(df) == FilterClo(FillMetadata(df))

\* lines 147-153, in the order the code runs them
FilterAndFill(df) == FillMetadata(FilterClo(df))

\* lines 115-159, stage by stage
ParseFile(f) ==
    DropDuplicates(FillBlank(FilterAndFill(FillCourseCode(FillSubject(RenameColumns(ReadTable(f)))))))

\* the files the administrator uploads in the workflow study: the two-row
\* sheet of course CS101, a sheet without a statement column, a broken file
HCourse == <<"C", "o", "u", "r", "s", "e", " ", "C", "o", "d", "e">>
HSubject == <<"S", "u", "b", "j", "e", "c", "t">>
HClo == <<"C", "L", "O", " ", "N", "o">>
HStatement == <<"C", "L", "O", " ", "S", "t", "a", "t", "e", "m", "e", "n", "t">>
HKnowledge == <<"K", "n", "o", "w", "l", "e", "d", "g", "e", " ", "P", "r", "o", "f", "i", "l", "e">>
CS101File ==
    [decodable |-> TRUE,
     lines |-> << <<HCourse, HSubject, HClo, HStatement>>,
                  <<<<"C", "S", "1", "0", "1">>, <<"I", "n", "t", "r", "o">>, <<"C", "L", "O", "-", "1">>, <<"U", "n", "d", "e", "r", "s", "t", "a", "n", "d", " ", "X">>>>,
                  <<NaN, NaN, <<"C", "L", "O", "-", "2">>, <<"A", "p", "p", "l", "y", " ", "Y">>>> >>]
NoStatementFile ==
    [decodable |-> TRUE,
     lines |-> << <<HCourse, HSubject, HClo>>, <<<<"C", "S", "1", "0", "1">>, <<"I", "n", "t", "r", "o">>, <<"C", "L", "O", "-", "1">>>> >>]
Undecodable == [decodable |-> FALSE, lines |-> <<>>]
UploadFiles == {CS101File, NoStatementFile, Undecodable}

\* smart_parse_file; what it returns for the files of the workflow study is
\* computed once
ParsedUploadFiles == [f \in UploadFiles |-> ParseFile(f)] @@ <<>>
smart_parse_file(f) == IF f \in UploadFiles THEN ParsedUploadFiles[f] ELSE ParseFile(f)

\* --------------------------------------------------------- configuration
\* lines 28-32
RECURSIVE Numbered(_, _)
Numbered(prefix, n) == IF n = 0 THEN <<>> ELSE Numbered(prefix, n - 1) \o <<prefix \o (IF n < 10 THEN <<Digits[n + 1]>> ELSE <<Digits[(n \div 10) + 1], Digits[(n % 10) + 1]>>)>>
PLOS == Numbered(<<"P", "L", "O", "-">>, 12)
BLOOMS == Numbered(<<"C">>, 6) \o Numbered(<<"P">>, 7) \o Numbered(<<"A">>, 5)
WKS == Numbered(<<"W", "K">>, 8)
SDGS == Numbered(<<"S", "D", "G", "-">>, 17)
ECS == Numbered(<<"E", "C">>, 7)

UPDATE == <<"U", "P", "D", "A", "T", "E">>
DELETE == <<"D", "E", "L", "E", "T", "E">>
Faculty == <<"F", "a", "c", "u", "l", "t", "y">>

\* ------------------------------------------------------------ the store
\* lines 79-93: the columns of inventory besides id
InventoryColumns == {"course_code", "subject", "theory_lab", "credit_hours", "clo_id",
                     "statement", "plo", "bloom", "kp", "sgds", "ec", "notes"}

\* the variant without AUTOINCREMENT, which hands a deleted row's id out again
NextIdReusing(ids, seq) == IF ids = {} THEN 1 ELSE Max(ids) + 1

\* id INTEGER PRIMARY KEY AUTOINCREMENT (lines 80, 95): one more than the
\* largest id the table has ever held, whatever has been deleted since
NextId(ids, seq) == seq + 1

\* INSERT INTO inventory (...) VALUES (...), once per row of rows, in order:
\* the table and the sequence afterwards
RECURSIVE InsertAll(_, _, _)
InsertAll(inv, seq, rows) ==
    IF rows = <<>> THEN [inv |-> inv, seq |-> seq]
    ELSE LET id == NextId(DOMAIN inv, seq)
         IN InsertAll([i \in DOMAIN inv \cup {id} |-> IF i = id THEN Head(rows) ELSE inv[i]],
                      IF id > seq THEN id ELSE seq, Tail(rows))

\* DELETE FROM inventory
DeleteAllInventory(inv) == [i \in {} |-> NULL]

\* the variant whose DELETE has lost its WHERE clause
DeleteInventoryNoWhere(inv, id) == [i \in {} |-> NULL]

\* DELETE FROM inventory WHERE id=?
DeleteInventoryWhere(inv, id) == [i \in DOMAIN inv \ {id} |-> inv[i]]

\* the variant that appends to notes where the statement assigns it
UpdateInventoryAppending(inv, id, r) ==
    [i \in DOMAIN inv |->
        IF i = id
        THEN [inv[i] EXCEPT !.statement = r.new_statement, !.plo = r.new_plo,
                            !.bloom = r.new_bloom, !.kp = r.new_kp, !.sgds = r.new_sgds,
                            !.ec = r.new_ec, !.notes = @ \o r.new_notes]
        ELSE inv[i]]

\* UPDATE inventory SET statement=?, plo=?, bloom=?, kp=?, sgds=?, ec=?, notes=? WHERE id=?
UpdateInventoryWhere(inv, id, r) ==
    [i \in DOMAIN inv |->
        IF i = id
        THEN [inv[i] EXCEPT !.statement = r.new_statement, !.plo = r.new_plo,
                            !.bloom = r.new_bloom, !.kp = r.new_kp, !.sgds = r.new_sgds,
                            !.ec = r.new_ec, !.notes = r.new_notes]
        ELSE inv[i]]

\* the variant whose DELETE has lost its WHERE clause
DeleteDraftNoWhere(ds, id) == {}

\* DELETE FROM drafts WHERE id=?
DeleteDraftWhere(ds, id) == {d \in ds : d.id # id}

\* ---------------------------------------------------------- row ordering
\* ORDER BY course_code, clo_id compares texts character by character.
CharOrder == <<" ", "-", ":">> \o Digits \o <<"A","B","C","D","E","F","G","H","I","J","K","L","M","N","O","P","Q","R","S","T","U","V","W","X","Y","Z">> \o <<"_">> \o <<"a","b","c","d","e","f","g","h","i","j","k","l","m","n","o","p","q","r","s","t","u","v","w","x","y","z">>
CharRank == [c \in {CharOrder[k] : k \in DOMAIN CharOrder} |-> CHOOSE k \in DOMAIN CharOrder : CharOrder[k] = c] @@ <<>>
Rank(c) == CharRank[c]
RECURSIVE TextLess(_, _)
TextLess(a, b) ==
    IF b = <<>> THEN FALSE
    ELSE IF a = <<>> THEN TRUE
    ELSE IF Head(a) = Head(b) THEN TextLess(Tail(a), Tail(b))
    ELSE Rank(Head(a)) < Rank(Head(b))

\* a < b for two column values; SQLite sorts NULL first, PostgreSQL last
ValueLess(a, b, nullsFirst) ==
    IF a = NULL THEN b # NULL /\ nullsFirst
    ELSE IF b = NULL THEN ~nullsFirst
    ELSE TextLess(a, b)

RowBefore(x, y, nullsFirst) ==
    \/ ValueLess(x.course_code, y.course_code, nullsFirst)
    \/ x.course_code = y.course_code /\ ValueLess(x.clo_id, y.clo_id, nullsFirst)

\* SELECT * FROM inventory ORDER BY course_code, clo_id: the sequences of ids
\* the query may return (rows with equal keys come in any order)
Orderings(S) == {p \in [1..Cardinality(S) -> S] : \A i, j \in 1..Cardinality(S) : i # j => p[i] # p[j]}
SelectOrdered(inv) ==
    {p \in Orderings(DOMAIN inv) :
        \E nullsFirst \in BOOLEAN :
            \A i, j \in DOMAIN p : i < j => ~RowBefore(inv[p[j]], inv[p[i]], nullsFirst)}

\* ------------------------------------------------------------- the pages
Notice(kind, text) == [kind |-> kind, text |-> text]
NoRequest == [id |-> 0]
Ran(op, r) == [op |-> op, req |-> r, resumed |-> FALSE]
NoCrash == [i \in {} |-> NULL]

\* df['label'] = df['course_code'] + " : " + df['subject'] (line 213) is a text
\* only where both are; sorted() over the labels (line 214) and .iloc[0]
\* (lines 225, 251) raise otherwise, so the page then offers no form
LabelDefined(row) == row.course_code # NULL /\ row.subject # NULL
FacultyPageRenders == inventory # NoCrash /\ \A i \in DOMAIN inventory : LabelDefined(inventory[i])

\* what a faculty member may enter in the edit form (lines 227-241)
S1 == <<"S", "1">>
S2 == <<"S", "2">>
EditForms ==
    { [statement |-> S2, plo |-> PLOS[2], bloom |-> BLOOMS[2], kp |-> WKS[1],
       sgds |-> SDGS[1], ec |-> ECS[1], notes |-> <<"n">>] }

\* the row INSERT INTO drafts writes; a column the statement does not name is NULL
UpdateDraft(id, target, row, form) ==
    [id |-> id, inv_id |-> target, course_code |-> row.course_code, subject |-> row.subject,
     clo_id |-> row.clo_id, new_statement |-> form.statement, new_plo |-> form.plo,
     new_bloom |-> form.bloom, new_kp |-> form.kp, new_sgds |-> form.sgds, new_ec |-> form.ec,
     new_theory_lab |-> NULL, new_credit_hours |-> NULL, new_notes |-> form.notes,
     request_type |-> UPDATE, requester |-> Faculty]

DeleteDraft(id, target, row) ==
    [id |-> id, inv_id |-> target, course_code |-> row.course_code, subject |-> row.subject,
     clo_id |-> row.clo_id, new_statement |-> NULL, new_plo |-> NULL,
     new_bloom |-> NULL, new_kp |-> NULL, new_sgds |-> NULL, new_ec |-> NULL,
     new_theory_lab |-> NULL, new_credit_hours |-> NULL, new_notes |-> NULL,
     request_type |-> DELETE, requester |-> Faculty]

Untouched == UNCHANGED <<file, pc, parsed, reparsed>>

\* Faculty Editor: Submit Request (lines 243-246)
SubmitRequest(target, form) ==
    /\ FacultyPageRenders
    /\ target \in DOMAIN inventory
    /\ inventory[target].clo_id # NULL
    /\ seqDrafts < MaxDraftId
    /\ drafts' = drafts \cup {UpdateDraft(NextId({d.id : d \in drafts}, seqDrafts), target, inventory[target], form)}
    /\ seqDrafts' = NextId({d.id : d \in drafts}, seqDrafts)
    /\ notice' = Notice("success", "Sent to Admin.")
    /\ last' = Ran("submit", NoRequest)
    /\ crashPre' = NoCrash
    /\ UNCHANGED <<inventory, seqInventory, everIds>>
    /\ Untouched

\* Faculty Editor: Request Deletion (lines 250-254); the page reports it with st.error
RequestDeletion(target) ==
    /\ FacultyPageRenders
    /\ target \in DOMAIN inventory
    /\ inventory[target].clo_id # NULL
    /\ seqDrafts < MaxDraftId
    /\ drafts' = drafts \cup {DeleteDraft(NextId({d.id : d \in drafts}, seqDrafts), target, inventory[target])}
    /\ seqDrafts' = NextId({d.id : d \in drafts}, seqDrafts)
    /\ notice' = Notice("error", "Deletion Request Sent.")
    /\ last' = Ran("request_deletion", NoRequest)
    /\ crashPre' = NoCrash
    /\ UNCHANGED <<inventory, seqInventory, everIds>>
    /\ Untouched

\* the first of the two statements of Confirm / Approve (lines 331, 342-343)
MutateTarget(inv, r) ==
    IF r.request_type = DELETE THEN DeleteInventoryWhere(inv, r.inv_id)
    ELSE UpdateInventoryWhere(inv, r.inv_id, r)

\* Approvals: Confirm of a DELETE request (lines 330-333), Approve of an
\* UPDATE request (lines 341-345); st.rerun() redraws the page with no message
ApproveRequest(r) ==
    /\ r \in drafts
    /\ inventory' = MutateTarget(inventory, r)
    /\ drafts' = DeleteDraftWhere(drafts, r.id)
    /\ notice' = Notice("none", "")
    /\ last' = [Ran("approve", r) EXCEPT !.resumed = (last.op = "approve_interrupted" /\ last.req = r)]
    /\ crashPre' = NoCrash
    /\ UNCHANGED <<seqInventory, seqDrafts, everIds>>
    /\ Untouched

\* the same handler when the process stops after its first statement has
\* committed (run_query commits each statement, line 69) and before the second
ApproveInterrupted(r) ==
    /\ r \in drafts
    /\ inventory' = MutateTarget(inventory, r)
    /\ notice' = Notice("none", "")
    /\ last' = Ran("approve_interrupted", r)
    /\ crashPre' = inventory
    /\ UNCHANGED <<drafts, seqInventory, seqDrafts, everIds>>
    /\ Untouched

\* Approvals: Reject (lines 334-336, 346-348)
RejectRequest(r) ==
    /\ r \in drafts
    /\ drafts' = DeleteDraftWhere(drafts, r.id)
    /\ notice' = Notice("none", "")
    /\ last' = Ran("reject", r)
    /\ crashPre' = NoCrash
    /\ UNCHANGED <<inventory, seqInventory, seqDrafts, everIds>>
    /\ Untouched

\* DELETE FROM inventory followed by one INSERT per row (lines 271-276, 311-316)
ReplaceAll(rows) ==
    LET done == InsertAll(DeleteAllInventory(inventory), seqInventory, rows)
    IN /\ inventory' = done.inv
       /\ seqInventory' = done.seq
       /\ everIds' = everIds \cup DOMAIN done.inv

\* what the administrator may do in the data editor before saving: delete
\* a row, and rewrite the statement of the first remaining one
LiveEdits == {"keep", "rewrite"}
Deletions(ids) == {{}} \cup {{i} : i \in ids}
EditedRows(order, deleted, edit) ==
    LET Stays(i) == i \notin deleted
        left == SelectSeq(order, Stays)
    IN [k \in DOMAIN left |->
           IF k = 1 /\ edit = "rewrite" THEN [inventory[left[k]] EXCEPT !.statement = S2]
           ELSE inventory[left[k]]] \o <<>>

\* Live Editor: SAVE CHANGES (lines 267-279)
LiveSave(order, deleted, edit) ==
    LET rows == EditedRows(order, deleted, edit)
    IN /\ order \in SelectOrdered(inventory)
       /\ seqInventory + Len(rows) <= MaxInventoryId
       /\ ReplaceAll(rows)
       /\ notice' = Notice("success", "Updated!")
       /\ last' = Ran("live_save", NoRequest)
       /\ crashPre' = NoCrash
       /\ UNCHANGED <<drafts, seqDrafts>>
       /\ Untouched

\* Create Course: the editor starts with CLO-1..CLO-4 (line 289); what the
\* administrator may type as code and as the four statements
CourseCodes == {<<>>, <<"M", "E", "-", "2", "0", "5">>}
StatementsEntered == {<<<<>>, <<>>, <<>>, <<>>>>, <<S1, <<" ">>, <<>>, <<>>>>}
NewCloRow(code, n, text) ==
    [course_code |-> code, subject |-> <<"T", "h", "e", "r", "m", "o">>, theory_lab |-> <<"T", "h", "e", "o", "r", "y">>, credit_hours |-> <<"3">>,
     clo_id |-> Numbered(<<"C", "L", "O", "-">>, 4)[n], statement |-> text, plo |-> PLOS[1], bloom |-> BLOOMS[1],
     kp |-> <<>>, sgds |-> <<>>, ec |-> <<>>, notes |-> <<>>]
RECURSIVE NewCloRows(_, _, _)
NewCloRows(code, texts, n) ==
    IF n > Len(texts) THEN <<>>
    ELSE IF strip(texts[n]) # <<>> THEN <<NewCloRow(code, n, texts[n])>> \o NewCloRows(code, texts, n + 1)
    ELSE NewCloRows(code, texts, n + 1)

\* Create Course: CREATE COURSE (lines 291-304)
CreateCourse(code, texts) ==
    LET rows == NewCloRows(code, texts, 1)
        done == InsertAll(inventory, seqInventory, rows)
    IN /\ seqInventory + Len(rows) <= MaxInventoryId
       /\ IF code = <<>>
          THEN /\ notice' = Notice("error", "Code and Subject required.")
               /\ UNCHANGED <<inventory, seqInventory, everIds>>
          ELSE /\ inventory' = done.inv
               /\ seqInventory' = done.seq
               /\ everIds' = everIds \cup DOMAIN done.inv
               /\ notice' = IF rows # <<>> THEN Notice("success", "Created")
                            ELSE Notice("error", "Fill at least one CLO.")
       /\ last' = Ran("create_course", NoRequest)
       /\ crashPre' = NoCrash
       /\ UNCHANGED <<drafts, seqDrafts>>
       /\ Untouched

\* r.get(name, default) on a row of the parsed table (lines 314-316)
Get(df, row, name, default) == IF HasCol(df, name) THEN row.cells[ColIdx(df, name)] ELSE default
UploadedRow(df, row) ==
    [course_code |-> Get(df, row, course_code, NULL), subject |-> Get(df, row, subject, NULL),
     theory_lab |-> Get(df, row, theory_lab, <<>>), credit_hours |-> Get(df, row, credit_hours, <<>>),
     clo_id |-> Get(df, row, clo_id, NULL), statement |-> Get(df, row, statement, NULL),
     plo |-> Get(df, row, plo, NULL), bloom |-> Get(df, row, bloom, NULL),
     kp |-> Get(df, row, kp, <<>>), sgds |-> Get(df, row, sgds, <<>>),
     ec |-> Get(df, row, ec, <<>>), notes |-> Get(df, row, notes, <<>>)]

\* Upload: Process & Replace (lines 308-317), given what smart_parse_file returned
ProcessReplaceStore(df_clean) ==
    LET rows == [k \in DOMAIN df_clean.rows |-> UploadedRow(df_clean, df_clean.rows[k])] \o <<>>
    IN /\ seqInventory + Len(df_clean.rows) <= MaxInventoryId
       /\ IF df_clean.ok
          THEN /\ ReplaceAll(rows)
               /\ notice' = Notice("success", "Database Reset!")
          ELSE /\ notice' = Notice("error", "Error Parsing File")
               /\ UNCHANGED <<inventory, seqInventory, everIds>>
       /\ last' = Ran("upload", NoRequest)
       /\ crashPre' = NoCrash
       /\ UNCHANGED <<drafts, seqDrafts>>

ProcessReplace(f) == ProcessReplaceStore(smart_parse_file(f)) /\ Untouched

\* ------------------------------------------------------- uploaded files
\* the header rows studied, and the cells tried under each header
Headers ==
    { <<HCourse, HSubject, HClo, HStatement, HKnowledge>>,
      <<HCourse, HSubject, HClo, HStatement>>,
      <<HCourse, HClo, HStatement, HKnowledge>>,
      <<HCourse, HSubject, HClo>>,
      <<HSubject, HClo, HStatement>> }

CellsUnder(h) ==
    IF h = HCourse THEN {NaN, <<"C", "1">>}
    ELSE IF h = HSubject THEN {NaN, <<"A">>, <<"B">>}
    ELSE IF h = HClo THEN {NaN, <<"C", "L", "O", "-", "1">>, <<"N", "o", "t", "e", "s">>}
    ELSE IF h = HStatement THEN {S1}
    ELSE {NaN, <<"W", "K", "1">>}

\* every line with one of its header's cells in each column
RECURSIVE LinesUnder(_)
LinesUnder(hd) ==
    IF hd = <<>> THEN {<<>>}
    ELSE {<<c>> \o rest : c \in CellsUnder(Head(hd)), rest \in LinesUnder(Tail(hd))}
PlainFile(hd, body) == [decodable |-> TRUE, lines |-> <<hd>> \o body]

\* a decorative first line above the real header row
TitleLine(n) == [i \in 1..n |-> IF i = 1 THEN <<"O", "B", "E", " ", "I", "n", "v", "e", "n", "t", "o", "r", "y">> ELSE NaN] \o <<>>
TitledHeader == <<HCourse, HSubject, HClo, HStatement>>
TitledFile(hd, body) == [decodable |-> TRUE, lines |-> <<TitleLine(Len(hd)), hd>> \o body]

NoFile == Undecodable

\* the parsed table written out and uploaded again: columns as the header
\* line, and an empty field is read back as a missing value
AsUpload(df) ==
    [decodable |-> TRUE,
     lines |-> <<df.columns>> \o
               [k \in DOMAIN df.rows |->
                   [i \in DOMAIN df.rows[k].cells |->
                       IF df.rows[k].cells[i] = <<>> THEN NaN ELSE df.rows[k].cells[i]] \o <<>>]]

\* ------------------------------------------------------ specifications
InitStore ==
    /\ inventory = NoCrash
    /\ drafts = {}
    /\ seqInventory = 0
    /\ seqDrafts = 0
    /\ notice = Notice("none", "")
    /\ last = Ran("init_db", NoRequest)
    /\ crashPre = NoCrash
    /\ everIds = {}

Init ==
    /\ InitStore
    /\ file = NoFile
    /\ pc = "idle"
    /\ parsed = ParseError
    /\ reparsed = ParseError

Next ==
    \/ \E target \in DOMAIN inventory, form \in EditForms : SubmitRequest(target, form)
    \/ \E target \in DOMAIN inventory : RequestDeletion(target)
    \/ \E r \in drafts : ApproveRequest(r)
    \/ \E r \in drafts : ApproveInterrupted(r)
    \/ \E r \in drafts : RejectRequest(r)
    \/ \E order \in SelectOrdered(inventory), deleted \in Deletions(DOMAIN inventory), edit \in LiveEdits :
           LiveSave(order, deleted, edit)
    \/ \E code \in CourseCodes, texts \in StatementsEntered : CreateCourse(code, texts)
    \/ \E f \in UploadFiles : ProcessReplace(f)

Spec == Init /\ [][Next]_vars

\* The parser study: one uploaded file, parsed, then either parsed again from
\* its own output or put into the store by Process & Replace.
InitParse ==
    /\ InitStore
    /\ \/ file = Undecodable
       \/ \E hd \in Headers, n \in 0..MaxRows :
              \E body \in [1..n -> LinesUnder(hd)] : file = PlainFile(hd, body)
       \/ \E n \in 0..MaxRows :
              \E body \in [1..n -> LinesUnder(TitledHeader)] : file = TitledFile(TitledHeader, body)
    /\ pc = "start"
    /\ parsed = ParseError
    /\ reparsed = ParseError

Parse ==
    /\ pc = "start"
    /\ parsed' = smart_parse_file(file)
    /\ pc' = "parsed"
    /\ UNCHANGED <<inventory, drafts, seqInventory, seqDrafts, notice, last, crashPre, everIds, file, reparsed>>

ParseAgain ==
    /\ pc = "parsed"
    /\ parsed.ok
    /\ reparsed' = smart_parse_file(AsUpload(parsed))
    /\ pc' = "reparsed"
    /\ UNCHANGED <<inventory, drafts, seqInventory, seqDrafts, notice, last, crashPre, everIds, file, parsed>>

ProcessUpload ==
    /\ pc = "parsed"
    /\ ProcessReplaceStore(parsed)
    /\ pc' = "replaced"
    /\ UNCHANGED <<file, parsed, reparsed>>

NextParse == Parse \/ ParseAgain \/ ProcessUpload

ParseSpec == InitParse /\ [][NextParse]_vars

\* =================================================== the approval workflow
\* The properties below are checked under Spec.  A step is recognised by the
\* handler recorded in last'.

ApproveStep == last'.op = "approve" /\ last'.req \in drafts
BulkReplaceStep == last'.op = "live_save" \/ (last'.op = "upload" /\ notice'.kind = "success")

\* C1: approving a pending UPDATE request whose target exists overwrites the
\* target's statement, plo, bloom, kp, sgds, ec, theory_lab, credit_hours and
\* notes with the request's proposed values, leaves its course_code and clo_id
\* as they were, leaves every other record as it was, and removes the request.
C1_ApproveOverwritesEveryMutableField ==
    [][ (ApproveStep /\ last'.req.request_type = UPDATE /\ last'.req.inv_id \in DOMAIN inventory) =>
            LET r == last'.req
                t == last'.req.inv_id
            IN /\ DOMAIN inventory' = DOMAIN inventory
               /\ inventory'[t].statement = r.new_statement
               /\ inventory'[t].plo = r.new_plo
               /\ inventory'[t].bloom = r.new_bloom
               /\ inventory'[t].kp = r.new_kp
               /\ inventory'[t].sgds = r.new_sgds
               /\ inventory'[t].ec = r.new_ec
               /\ inventory'[t].theory_lab = r.new_theory_lab
               /\ inventory'[t].credit_hours = r.new_credit_hours
               /\ inventory'[t].notes = r.new_notes
               /\ inventory'[t].course_code = inventory[t].course_code
               /\ inventory'[t].clo_id = inventory[t].clo_id
               /\ \A i \in DOMAIN inventory \ {t} : inventory'[i] = inventory[i]
               /\ drafts' = drafts \ {r} ]_vars

\* C2: approving a request, UPDATE or DELETE, whose target record is no longer
\* in the inventory leaves the inventory as it was, removes the request and
\* shows no error.
C2_StaleApproveIsSilent ==
    [][ (ApproveStep /\ last'.req.inv_id \notin DOMAIN inventory) =>
            /\ inventory' = inventory
            /\ drafts' = drafts \ {last'.req}
            /\ notice'.kind # "error" ]_vars

\* an UPDATE request has just been approved although its target is gone, and
\* there are records it might have touched
C2_StaleApproved ==
    /\ last.op = "approve"
    /\ last.req.request_type = UPDATE
    /\ last.req.inv_id \notin DOMAIN inventory
    /\ last.req.inv_id \in everIds
    /\ inventory # NoCrash
    /\ last.req \notin drafts

\* C3: rejecting a pending request removes that request and nothing else: the
\* inventory and every other pending request are as they were.
C3_RejectRemovesOnlyTheRequest ==
    [][ last'.op = "reject" =>
            /\ last'.req \in drafts
            /\ inventory' = inventory
            /\ drafts' = drafts \ {last'.req} ]_vars

\* a request has just been rejected while another one stays pending
C3_RejectedOneOfTwo ==
    /\ last.op = "reject"
    /\ last.req \notin drafts
    /\ drafts # {}
    /\ inventory # NoCrash

\* C4: every pending DELETE request carries no proposed value, and every
\* pending UPDATE request carries a proposed value for each of the nine
\* mutable fields, theory_lab and credit_hours included.
C4_ProposedValuesComplete ==
    \A d \in drafts :
        LET proposed == <<d.new_statement, d.new_plo, d.new_bloom, d.new_kp, d.new_sgds,
                          d.new_ec, d.new_theory_lab, d.new_credit_hours, d.new_notes>>
        IN /\ d.request_type = DELETE => \A k \in DOMAIN proposed : proposed[k] = NULL
           /\ d.request_type = UPDATE => \A k \in DOMAIN proposed : proposed[k] # NULL

\* C9: an approve that stops after its first statement leaves the target
\* mutated and the request pending; approving the same request again then
\* gives the inventory and the requests that one uninterrupted approve gives
\* from the state before the interruption.
C9_ReapproveAfterInterruption ==
    [][ /\ last'.op = "approve_interrupted" =>
            /\ inventory' = MutateTarget(inventory, last'.req)
            /\ last'.req \in drafts'
            /\ drafts' = drafts
        /\ (last'.op = "approve" /\ last'.resumed) =>
            /\ inventory' = MutateTarget(crashPre, last'.req)
            /\ drafts' = drafts \ {last'.req}
            /\ last'.req \in drafts ]_vars

\* an UPDATE request on an existing record has been approved again after its
\* first approve was interrupted
C9_Reapproved ==
    /\ last.op = "approve"
    /\ last.resumed
    /\ last.req.request_type = UPDATE
    /\ last.req.inv_id \in DOMAIN inventory
    /\ last.req \notin drafts

InputTable == RenameColumns(ReadTable(file))
Parsed == pc = "parsed" /\ parsed.ok
Blank(cell) == cell = NaN

\* the subject of line k of table t once forward-filled down the sheet
SubjectAt(t, k) ==
    LET s == ColIdx(t, subject)
        above == {j \in 1..k : ~Blank(t.rows[j].cells[s])}
    IN IF above = {} THEN NaN ELSE t.rows[Max(above)].cells[s]

\* the course_code C5 describes for line k of table t
CourseCodeAt(t, k) ==
    LET c == ColIdx(t, course_code)
        above == {j \in 1..k : /\ ~Blank(t.rows[j].cells[c])
                               /\ SubjectAt(t, j) = SubjectAt(t, k)}
    IN IF ~Blank(t.rows[k].cells[c]) THEN t.rows[k].cells[c]
       ELSE IF above = {} THEN MISSING
       ELSE t.rows[Max(above)].cells[c]

\* C5: in a table with a subject and a course_code column, every row of the
\* result has its own course_code when that was not blank, else the most
\* recent non-blank course_code above it in its forward-filled subject group,
\* else "MISSING".
C5_CourseCodeFilledWithinSubject ==
    Parsed =>
        LET t == InputTable
        IN (HasCol(t, subject) /\ HasCol(t, course_code)) =>
               \A n \in DOMAIN parsed.rows :
                   parsed.rows[n].cells[ColIdx(parsed, course_code)] = CourseCodeAt(t, parsed.rows[n].index + 1)

\* the table after the subject fill and the course_code fill, which C6 and
\* the code agree come first
Staged == FillCourseCode(FillSubject(InputTable))
Survives(st, k) ==
    \/ ~HasCol(st, clo_id)
    \/ LET cell == st.rows[k].cells[ColIdx(st, clo_id)]
       IN ~Blank(cell) /\ contains(lower(cell), <<"c", "l", "o">>)

\* the lines at or above line k, in line k's course_code group, whose cell in
\* column v is not blank
GroupAbove(st, k, v) ==
    LET c == ColIdx(st, course_code)
    IN {j \in 1..k : /\ st.rows[j].cells[c] = st.rows[k].cells[c]
                     /\ ~Blank(st.rows[j].cells[v])}
Latest(st, lines, v) == IF lines = {} THEN <<>> ELSE st.rows[Max(lines)].cells[v]
MetadataPresent == {n \in DOMAIN fill_cols : HasCol(parsed, fill_cols[n])}

\* the metadata C6 describes for line k: filled from every line of the input
FilledBeforeFilter(st, k, v) ==
    IF ~Blank(st.rows[k].cells[v]) THEN st.rows[k].cells[v]
    ELSE Latest(st, GroupAbove(st, k, v), v)

FilledAfterFilter(st, k, v) ==
    IF Blank(st.rows[k].cells[ColIdx(st, course_code)]) THEN <<>>
    ELSE IF ~Blank(st.rows[k].cells[v]) THEN st.rows[k].cells[v]
    ELSE Latest(st, {j \in GroupAbove(st, k, v) : Survives(st, j)}, v)

C7_ParseIsIdempotent ==
    pc = "reparsed" =>
        /\ reparsed.ok
        /\ reparsed.columns = parsed.columns
        /\ Len(reparsed.rows) = Len(parsed.rows)
        /\ \A n \in DOMAIN parsed.rows :
              n \in DOMAIN reparsed.rows /\ reparsed.rows[n].cells = parsed.rows[n].cells

\* C8: a file that reads as a table is parsed whatever canonical columns it
\* lacks, and the result has just the columns the file has; the parse fails
\* only for a file that does not read as a table, and then Process & Replace
\* leaves the inventory as it was.
C8_MissingColumnsTolerated ==
    pc # "start" =>
        /\ parsed.ok = ReadTable(file).ok
        /\ parsed.ok => parsed.columns = InputTable.columns
        /\ (pc = "replaced" /\ ~parsed.ok) =>
              /\ inventory = NoCrash
              /\ seqInventory = 0
              /\ notice.kind = "error"

====
